---- MODULE Spec2Model ----
(***************************************************************************)
(* Time-triggered cooperative schedulers of                                *)
(* Workshops/PatternsArchitecture/CodeExamples/CyclicExecutive:            *)
(*   CyclicExecutive<MAX_TASKS>      period based dispatch                 *)
(*   TimeSlotScheduler<SLOTS, CAP>   fixed time-slot dispatch              *)
(*                                                                         *)
(* One scheduler object is constructed (sched says which class) and then   *)
(* driven by arbitrary calls of its public operations.                     *)
(*                                                                         *)
(* uint32_t fields are unsigned and wrap; TLC has no 2^32, so every        *)
(* uint32_t field is kept modulo UINT_MOD, a scaled-down power of the      *)
(* counter: all arithmetic on such fields goes through U32Add / Elapsed.   *)
(* tasks_ (std::array + numTasks_) is the sequence of the numTasks_ valid  *)
(* entries; the C++ index i is the sequence index i + 1.                   *)
(***************************************************************************)
EXTENDS Integers, Sequences, FiniteSets, TLC

VARIABLES
    sched,            \* which class the harness constructed
    tasks_,           \* CyclicExecutive::tasks_[0 .. numTasks_-1]
    numTasks_,        \* CyclicExecutive::numTasks_
    currentTimeMs_,   \* currentTimeMs_ of the constructed scheduler
    slots_,           \* TimeSlotScheduler::slots_
    slotDurationMs_,  \* TimeSlotScheduler::slotDurationMs_
    currentSlot_,     \* TimeSlotScheduler::currentSlot_
    lastSlotTimeMs_,  \* TimeSlotScheduler::lastSlotTimeMs_
    lastOp,           \* the public operation called last ("ctor" at first)
    lastRet,          \* what it returned (TRUE for a void operation)
    runsInRow,        \* run() calls made in a row up to now (0, 1, or 2 for "2 or more")
    calls,            \* the ITask::run() calls it made, in order
    addOk,            \* number of addTask calls that returned true
    slotAddOk,        \* per slot: number of addTaskToSlot calls that returned true
    pc,               \* where TimeSlotScheduler::run() stands: "idle", "tasks"
    idx,              \* the loop variable i of TimeSlotScheduler::run()
    ticks,            \* tick() calls since construction (counted up to a cap)
    sinceCall,        \* tick() calls since run() was last called
    sinceRun,         \* per entry: tick() calls since it last ran (since construction
                      \* if it never ran), counted up to UINT_MOD
    sinceSlot,        \* tick() calls since the last slot transition, up to UINT_MOD
    dispatched,       \* per slot: how often it was dispatched
    late,             \* a tick() came while a slot transition was due and not yet made
    sinceBegin,       \* tick() calls since the last dispatch began
    interval,         \* tick() calls between the last two dispatch beginnings (-1: none)
    switchCase,       \* the HeaterSwitchCase object: state_, heaterOn_
    stateTable,       \* the HeaterStateTable object: state_, heaterOn_
    statePattern,     \* the HeaterContext object: currentState_, heaterOn_
    events,           \* the HeaterEvent sequence fed to the three heaters so far
    debouncer,        \* the DelayDebouncer object
    button,           \* MockButton::pressed_
    seen,             \* the raw value update() read last, and how many update()
                      \* calls in a row have read it
    subject,          \* the ButtonSubject object: observers_, numObservers_
    detached,         \* observers whose detach returned true, not attached since
    received,         \* observers called by the last notify, in call order
    controller,       \* the TemperatureController object
    sensor,           \* the MockTemperatureSensor object: m_temperature, m_healthy
    heater,           \* the MockHeater object: m_isOn
    heaterCalls,      \* IHeater calls made by the last operation, in order
    sensorReads       \* ITemperatureSensor::read() calls made by the last operation

vars == <<sched, tasks_, numTasks_, currentTimeMs_, slots_, slotDurationMs_,
          currentSlot_, lastSlotTimeMs_, lastOp, lastRet, runsInRow, calls, addOk,
          slotAddOk, pc, idx, ticks, sinceCall, sinceRun, sinceSlot, dispatched,
          late, sinceBegin, interval,
          switchCase, stateTable, statePattern, events,
          debouncer, button, seen,
          subject, detached, received,
          controller, sensor, heater, heaterCalls, sensorReads>>

\* the position of run() and the observers of the driven specifications
obsVars == <<pc, idx, ticks, sinceCall, sinceRun, sinceSlot, dispatched, late,
             sinceBegin, interval>>

ceVars == <<tasks_, numTasks_, addOk>>

\* the objects of the other examples, one group per test fixture
heaterVars == <<switchCase, stateTable, statePattern, events>>

debouncerVars == <<debouncer, button, seen>>

subjectVars == <<subject, detached, received>>

controllerVars == <<controller, sensor, heater, heaterCalls, sensorReads>>

exampleVars == <<heaterVars, debouncerVars, subjectVars, controllerVars>>

tsVars == <<slots_, slotDurationMs_, currentSlot_, lastSlotTimeMs_, slotAddOk>>

-----------------------------------------------------------------------------
(* Bounds and program constants *)

\* modulus of the uint32_t fields (2^32 in the program)
UINT_MOD == 6

\* CyclicExecutive<2>, the instantiation of TEST(CyclicExecutive, RejectsWhenFull)
MAX_TASKS == 2

\* TimeSlotScheduler<SLOTS_PER_CYCLE, MAX_TASKS_PER_SLOT>
SLOTS_PER_CYCLE == 3

MAX_TASKS_PER_SLOT == 2

\* periods offered to addTask: 0 .. MaxPeriod
MaxPeriod == 2

\* slot durations offered to the constructor: 0 .. MaxSlotDuration
MaxSlotDuration == 2

\* run() is explored while every due entry has runCount < MaxRuns
MaxRuns == 3

\* successful addTaskToSlot calls are explored while the slots hold fewer
\* than MaxSlotAdds tasks together (failing calls always)
MaxSlotAdds == 3

\* CounterTask objects of the CyclicExecutive fixture
Tasks == {"fast", "slow"}

\* CounterTask objects of the TimeSlotScheduler fixture
SlotTasks == {"A", "B"}

Periods == 0 .. MaxPeriod

SlotDurations == 0 .. MaxSlotDuration

-----------------------------------------------------------------------------
(* uint32_t arithmetic *)

\* faulty variant: the counter saturates instead of wrapping
U32Add_saturating(a, b) == IF a + b >= UINT_MOD THEN UINT_MOD - 1 ELSE a + b

U32Add(a, b) == (a + b) % UINT_MOD

\* faulty variant: the difference is taken as a signed number, not modulo the
\* counter's width
Elapsed_signed(now, last) == now - last

\* uint32_t elapsed = now - last  (unsigned, modular)
Elapsed(now, last) == (now - last + UINT_MOD) % UINT_MOD

-----------------------------------------------------------------------------
(* CyclicExecutive *)

\* faulty variant: last-run is a snapshot of the current time
NewEntry_snapshot(task, periodMs) ==
    [task |-> task, periodMs |-> periodMs, lastRunMs |-> currentTimeMs_, runCount |-> 0]

\* TaskEntry as addTask creates it
NewEntry(task, periodMs) ==
    [task |-> task, periodMs |-> periodMs, lastRunMs |-> 0, runCount |-> 0]

\* faulty variant: dispatch on multiples of the period instead of on elapsed time
Due_modulo(entry, now) == entry.periodMs = 0 \/ now % entry.periodMs = 0

\* faulty variant: > instead of >=
Due_late(entry, now) == Elapsed(now, entry.lastRunMs) > entry.periodMs

\* if (elapsed >= entry.periodMs)
Due(entry, now) == Elapsed(now, entry.lastRunMs) >= entry.periodMs

\* faulty variant: the next deadline keeps the old phase (lastRunMs += periodMs)
Executed_keepPhase(entry, now) ==
    [entry EXCEPT !.lastRunMs = U32Add(@, entry.periodMs), !.runCount = U32Add(@, 1)]

\* faulty variant: the time of the run is not recorded
Executed_noStamp(entry, now) == [entry EXCEPT !.runCount = U32Add(@, 1)]

\* faulty variant: running an entry retunes its period to 0
Executed_retuned(entry, now) ==
    [entry EXCEPT !.lastRunMs = now, !.runCount = U32Add(@, 1), !.periodMs = 0]

\* faulty variant: one execution is counted twice
Executed_countsTwice(entry, now) ==
    [entry EXCEPT !.lastRunMs = now, !.runCount = U32Add(@, 2)]

\* entry.lastRunMs = currentTimeMs_; entry.runCount++;
Executed(entry, now) ==
    [entry EXCEPT !.lastRunMs = now, !.runCount = U32Add(@, 1)]

\* the for loop of run(), from sequence index i on; calls collects the
\* entry.task->run() invocations
RECURSIVE runFrom(_, _, _, _)
runFrom(i, entries, now, done) ==
    IF i > Len(entries)
    THEN [tasks |-> entries, calls |-> done]
    ELSE IF Due(entries[i], now)
         THEN runFrom(i + 1,
                      [entries EXCEPT ![i] = Executed(entries[i], now)],
                      now,
                      Append(done, [index |-> i - 1, task |-> entries[i].task]))
         ELSE runFrom(i + 1, entries, now, done)

\* faulty variant: the loop leaves after the first task it has run
RunPass_firstOnly(entries, now) ==
    LET due == {i \in 1 .. Len(entries) : Due(entries[i], now)} IN
    IF due = {} THEN [tasks |-> entries, calls |-> <<>>]
    ELSE LET i == CHOOSE d \in due : \A o \in due : d <= o IN
         [tasks |-> [entries EXCEPT ![i] = Executed(entries[i], now)],
          calls |-> <<[index |-> i - 1, task |-> entries[i].task]>>]

\* void run()
RunPass(entries, now) == runFrom(1, entries, now, <<>>)

\* faulty variant: > instead of >=
Full_offByOne(n) == n > MAX_TASKS

\* if (numTasks_ >= MAX_TASKS) return false;
Full(n) == n >= MAX_TASKS

CyclicExecutive_addTask(task, periodMs) ==
    /\ sched = "CyclicExecutive"
    /\ IF Full(numTasks_)
       THEN /\ lastRet' = FALSE
            /\ UNCHANGED <<tasks_, numTasks_, addOk>>
       ELSE /\ tasks_' = Append(tasks_, NewEntry(task, periodMs))
            /\ numTasks_' = numTasks_ + 1
            /\ lastRet' = TRUE
            /\ addOk' = addOk + 1
    /\ lastOp' = "addTask"
    /\ runsInRow' = 0
    /\ calls' = <<>>
    /\ UNCHANGED <<sched, currentTimeMs_>>
    /\ UNCHANGED tsVars
    /\ UNCHANGED exampleVars

CyclicExecutive_tick ==
    /\ sched = "CyclicExecutive"
    /\ currentTimeMs_' = U32Add(currentTimeMs_, 1)
    /\ lastOp' = "tick"
    /\ runsInRow' = 0
    /\ lastRet' = TRUE
    /\ calls' = <<>>
    /\ UNCHANGED <<sched, tasks_, numTasks_, addOk>>
    /\ UNCHANGED tsVars
    /\ UNCHANGED exampleVars

CyclicExecutive_run ==
    /\ sched = "CyclicExecutive"
    /\ \A i \in 1 .. numTasks_ :
          Due(tasks_[i], currentTimeMs_) => tasks_[i].runCount < MaxRuns
    /\ LET pass == RunPass(tasks_, currentTimeMs_)
       IN  /\ tasks_' = pass.tasks
           /\ calls' = pass.calls
    /\ lastOp' = "run"
    /\ runsInRow' = IF runsInRow = 0 THEN 1 ELSE 2
    /\ lastRet' = TRUE
    /\ UNCHANGED <<sched, numTasks_, currentTimeMs_, addOk>>
    /\ UNCHANGED tsVars
    /\ UNCHANGED exampleVars

\* void setTimeMs(uint32_t ms)   (test hook)
CyclicExecutive_setTimeMs(ms) ==
    /\ sched = "CyclicExecutive"
    /\ currentTimeMs_' = ms
    /\ lastOp' = "setTimeMs"
    /\ runsInRow' = 0
    /\ lastRet' = TRUE
    /\ calls' = <<>>
    /\ UNCHANGED <<sched, tasks_, numTasks_, addOk>>
    /\ UNCHANGED tsVars
    /\ UNCHANGED exampleVars

\* uint32_t getTaskRunCount(size_t index) const
getTaskRunCount(index) ==
    IF index < numTasks_ THEN tasks_[index + 1].runCount ELSE 0

getTaskCount == numTasks_

getCurrentTimeMs == currentTimeMs_

-----------------------------------------------------------------------------
(* TimeSlotScheduler *)

EmptySlot == [tasks |-> <<>>, taskCount |-> 0]

\* faulty variant: the time of the slot transition is not recorded
SlotPass_noStamp(slots, slot, now, last, duration) ==
    IF Elapsed(now, last) >= duration
    THEN [calls       |-> [i \in 1 .. slots[slot].taskCount |->
                              [index |-> i - 1, task |-> slots[slot].tasks[i]]],
          currentSlot |-> (slot + 1) % SLOTS_PER_CYCLE,
          lastSlotTimeMs |-> last]
    ELSE [calls |-> <<>>, currentSlot |-> slot, lastSlotTimeMs |-> last]

\* faulty variant: the slot index is not reduced modulo SLOTS_PER_CYCLE
SlotPass_noModulo(slots, slot, now, last, duration) ==
    IF Elapsed(now, last) >= duration
    THEN [calls       |-> [i \in 1 .. slots[slot % SLOTS_PER_CYCLE].taskCount |->
                              [index |-> i - 1,
                               task |-> slots[slot % SLOTS_PER_CYCLE].tasks[i]]],
          currentSlot |-> slot + 1,
          lastSlotTimeMs |-> now]
    ELSE [calls |-> <<>>, currentSlot |-> slot, lastSlotTimeMs |-> last]

\* faulty variant: one slot is dispatched, then the index and the transition
\* time catch up by every whole slot duration that elapsed
SlotPass_catchUp(slots, slot, now, last, duration) ==
    IF Elapsed(now, last) >= duration
    THEN LET k == IF duration = 0 THEN 1 ELSE Elapsed(now, last) \div duration IN
         [calls       |-> [i \in 1 .. slots[slot].taskCount |->
                              [index |-> i - 1, task |-> slots[slot].tasks[i]]],
          currentSlot |-> (slot + k) % SLOTS_PER_CYCLE,
          lastSlotTimeMs |-> (last + k * duration) % UINT_MOD]
    ELSE [calls |-> <<>>, currentSlot |-> slot, lastSlotTimeMs |-> last]

\* faulty variant: the index is advanced before the slot's tasks are run
SlotPass_advanceFirst(slots, slot, now, last, duration) ==
    IF Elapsed(now, last) >= duration
    THEN LET next == (slot + 1) % SLOTS_PER_CYCLE IN
         [calls       |-> [i \in 1 .. slots[next].taskCount |->
                              [index |-> i - 1, task |-> slots[next].tasks[i]]],
          currentSlot |-> next,
          lastSlotTimeMs |-> now]
    ELSE [calls |-> <<>>, currentSlot |-> slot, lastSlotTimeMs |-> last]

\* the body of run(): what it calls and the new currentSlot_ / lastSlotTimeMs_
SlotPass(slots, slot, now, last, duration) ==
    IF Elapsed(now, last) >= duration
    THEN [calls       |-> [i \in 1 .. slots[slot].taskCount |->
                              [index |-> i - 1, task |-> slots[slot].tasks[i]]],
          currentSlot |-> (slot + 1) % SLOTS_PER_CYCLE,
          lastSlotTimeMs |-> now]
    ELSE [calls |-> <<>>, currentSlot |-> slot, lastSlotTimeMs |-> last]

\* if (slotIndex >= SLOTS_PER_CYCLE) return false;
BadSlotIndex(slotIndex) == slotIndex >= SLOTS_PER_CYCLE

\* faulty variant: > instead of >=
SlotFull_offByOne(slot) == slot.taskCount > MAX_TASKS_PER_SLOT

\* if (slot.taskCount >= MAX_TASKS_PER_SLOT) return false;
SlotFull(slot) == slot.taskCount >= MAX_TASKS_PER_SLOT

\* faulty variant: the task is put in front of the slot's list
SlotAppend_inFront(slot, task) ==
    [slot EXCEPT !.tasks = <<task>> \o @, !.taskCount = @ + 1]

\* slot.tasks[slot.taskCount++] = task;
SlotAppend(slot, task) ==
    [slot EXCEPT !.tasks = Append(@, task), !.taskCount = @ + 1]

\* tasks held by all slots together
RECURSIVE SlotTotal(_, _)
SlotTotal(slots, s) ==
    IF s >= SLOTS_PER_CYCLE THEN 0 ELSE slots[s].taskCount + SlotTotal(slots, s + 1)

TimeSlotScheduler_addTaskToSlot(slotIndex, task) ==
    /\ sched = "TimeSlotScheduler"
    /\ IF BadSlotIndex(slotIndex) THEN TRUE
       ELSE IF SlotFull(slots_[slotIndex]) THEN TRUE
       ELSE SlotTotal(slots_, 0) < MaxSlotAdds
    /\ IF BadSlotIndex(slotIndex)
       THEN /\ lastRet' = FALSE
            /\ UNCHANGED <<slots_, slotAddOk>>
       ELSE IF SlotFull(slots_[slotIndex])
            THEN /\ lastRet' = FALSE
                 /\ UNCHANGED <<slots_, slotAddOk>>
            ELSE /\ slots_' = [slots_ EXCEPT ![slotIndex] = SlotAppend(@, task)]
                 /\ lastRet' = TRUE
                 /\ slotAddOk' = [slotAddOk EXCEPT ![slotIndex] = @ + 1]
    /\ lastOp' = "addTaskToSlot"
    /\ runsInRow' = 0
    /\ calls' = <<>>
    /\ UNCHANGED <<sched, currentTimeMs_, slotDurationMs_, currentSlot_, lastSlotTimeMs_>>
    /\ UNCHANGED ceVars
    /\ UNCHANGED exampleVars

TimeSlotScheduler_tick ==
    /\ sched = "TimeSlotScheduler"
    /\ currentTimeMs_' = U32Add(currentTimeMs_, 1)
    /\ lastOp' = "tick"
    /\ runsInRow' = 0
    /\ lastRet' = TRUE
    /\ calls' = <<>>
    /\ UNCHANGED <<sched, slots_, slotDurationMs_, currentSlot_, lastSlotTimeMs_, slotAddOk>>
    /\ UNCHANGED ceVars
    /\ UNCHANGED exampleVars

TimeSlotScheduler_run ==
    /\ sched = "TimeSlotScheduler"
    /\ LET pass == SlotPass(slots_, currentSlot_, currentTimeMs_,
                            lastSlotTimeMs_, slotDurationMs_)
       IN  /\ calls' = pass.calls
           /\ currentSlot_' = pass.currentSlot
           /\ lastSlotTimeMs_' = pass.lastSlotTimeMs
    /\ lastOp' = "run"
    /\ runsInRow' = IF runsInRow = 0 THEN 1 ELSE 2
    /\ lastRet' = TRUE
    /\ UNCHANGED <<sched, currentTimeMs_, slots_, slotDurationMs_, slotAddOk>>
    /\ UNCHANGED ceVars
    /\ UNCHANGED exampleVars

getCurrentSlot == currentSlot_

-----------------------------------------------------------------------------
(* Construction and the specifications *)

\* what a variable holds while its object is not constructed
NotConstructed == "not constructed"

NoHeaters ==
    /\ switchCase = NotConstructed
    /\ stateTable = NotConstructed
    /\ statePattern = NotConstructed
    /\ events = NotConstructed

NoDebouncer ==
    /\ debouncer = NotConstructed
    /\ button = NotConstructed
    /\ seen = NotConstructed

NoSubject ==
    /\ subject = NotConstructed
    /\ detached = NotConstructed
    /\ received = NotConstructed

NoController ==
    /\ controller = NotConstructed
    /\ sensor = NotConstructed
    /\ heater = NotConstructed
    /\ heaterCalls = NotConstructed
    /\ sensorReads = NotConstructed

\* no run() in progress, nothing observed yet
InitObs ==
    /\ pc = "idle"
    /\ idx = 0
    /\ ticks = 0
    /\ sinceCall = 0
    /\ sinceRun = <<>>
    /\ sinceSlot = 0
    /\ dispatched = [s \in 0 .. SLOTS_PER_CYCLE - 1 |-> 0]
    /\ late = FALSE
    /\ sinceBegin = 0
    /\ interval = -1

\* CyclicExecutive() : numTasks_(0), currentTimeMs_(0)
InitCyclicExecutive ==
    /\ sched = "CyclicExecutive"
    /\ tasks_ = <<>>
    /\ numTasks_ = 0
    /\ currentTimeMs_ = 0
    /\ addOk = 0
    /\ slots_ = [s \in 0 .. SLOTS_PER_CYCLE - 1 |-> EmptySlot]
    /\ slotDurationMs_ = 0
    /\ currentSlot_ = 0
    /\ lastSlotTimeMs_ = 0
    /\ slotAddOk = [s \in 0 .. SLOTS_PER_CYCLE - 1 |-> 0]
    /\ lastOp = "ctor"
    /\ runsInRow = 0
    /\ lastRet = TRUE
    /\ calls = <<>>
    /\ InitObs
    /\ NoHeaters /\ NoDebouncer /\ NoSubject /\ NoController

\* TimeSlotScheduler(uint32_t slotDurationMs)
InitTimeSlotScheduler ==
    /\ sched = "TimeSlotScheduler"
    /\ slotDurationMs_ \in SlotDurations
    /\ currentSlot_ = 0
    /\ currentTimeMs_ = 0
    /\ lastSlotTimeMs_ = 0
    /\ slots_ = [s \in 0 .. SLOTS_PER_CYCLE - 1 |-> EmptySlot]
    /\ slotAddOk = [s \in 0 .. SLOTS_PER_CYCLE - 1 |-> 0]
    /\ tasks_ = <<>>
    /\ numTasks_ = 0
    /\ addOk = 0
    /\ lastOp = "ctor"
    /\ runsInRow = 0
    /\ lastRet = TRUE
    /\ calls = <<>>
    /\ InitObs
    /\ NoHeaters /\ NoDebouncer /\ NoSubject /\ NoController

Init == InitCyclicExecutive \/ InitTimeSlotScheduler

Next ==
    \/ /\ \E task \in Tasks, periodMs \in Periods : CyclicExecutive_addTask(task, periodMs)
       /\ UNCHANGED obsVars
    \/ /\ CyclicExecutive_tick
       /\ UNCHANGED obsVars
    \/ /\ CyclicExecutive_run
       /\ UNCHANGED obsVars
    \/ /\ \E ms \in 0 .. UINT_MOD - 1 : CyclicExecutive_setTimeMs(ms)
       /\ UNCHANGED obsVars
    \/ /\ \E slotIndex \in 0 .. SLOTS_PER_CYCLE, task \in SlotTasks :
             TimeSlotScheduler_addTaskToSlot(slotIndex, task)
       /\ UNCHANGED obsVars
    \/ /\ TimeSlotScheduler_tick
       /\ UNCHANGED obsVars
    \/ /\ TimeSlotScheduler_run
       /\ UNCHANGED obsVars

Spec == Init /\ [][Next]_vars

-----------------------------------------------------------------------------
(* Lock-step driving of CyclicExecutive: every task is registered at time  *)
(* 0, then the main loop calls run() once after every tick(), up to the    *)
(* first wrap of the time counter.                                         *)

Lockstep_addTask(task, periodMs) ==
    /\ currentTimeMs_ = 0
    /\ CyclicExecutive_addTask(task, periodMs)

\* scheduler->tick(); scheduler->run();
Lockstep_tickRun ==
    /\ sched = "CyclicExecutive"
    /\ currentTimeMs_ < UINT_MOD - 1
    /\ LET now  == U32Add(currentTimeMs_, 1)
           pass == RunPass(tasks_, now)
       IN  /\ currentTimeMs_' = now
           /\ tasks_' = pass.tasks
           /\ calls' = pass.calls
    /\ lastOp' = "run"
    /\ runsInRow' = 1
    /\ lastRet' = TRUE
    /\ UNCHANGED <<sched, numTasks_, addOk>>
    /\ UNCHANGED tsVars
    /\ UNCHANGED exampleVars

NextLockstep ==
    \/ /\ \E task \in Tasks, periodMs \in Periods : Lockstep_addTask(task, periodMs)
       /\ UNCHANGED obsVars
    \/ /\ Lockstep_tickRun
       /\ UNCHANGED obsVars

SpecLockstep == InitCyclicExecutive /\ [][NextLockstep]_vars

-----------------------------------------------------------------------------
(* Both schedulers driven by tick() only (no setTimeMs), with the tick()   *)
(* calls counted: since construction, since each entry last ran, since the *)
(* last slot transition.  The counts stop at UINT_MOD, from where on the   *)
(* time counter has come round to the value it is compared with.           *)

\* a count of tick() calls that stops at cap
CountUp(n, cap) == IF n >= cap THEN cap ELSE n + 1

\* a new entry has lastRunMs = 0, the time of construction
Ticks_addTask(task, periodMs) ==
    /\ CyclicExecutive_addTask(task, periodMs)
    /\ sinceRun' = IF Full(numTasks_) THEN sinceRun ELSE Append(sinceRun, ticks)
    /\ UNCHANGED <<pc, idx, ticks, sinceCall, sinceSlot, dispatched, late,
                   sinceBegin, interval>>

Ticks_tick ==
    /\ CyclicExecutive_tick
    /\ ticks' = CountUp(ticks, UINT_MOD)
    /\ sinceRun' = [i \in 1 .. Len(sinceRun) |-> CountUp(sinceRun[i], UINT_MOD)]
    /\ UNCHANGED <<pc, idx, sinceCall, sinceSlot, dispatched, late, sinceBegin, interval>>

Ticks_run ==
    /\ CyclicExecutive_run
    /\ sinceRun' = [i \in 1 .. Len(sinceRun) |->
                       IF tasks_'[i].runCount # tasks_[i].runCount THEN 0 ELSE sinceRun[i]]
    /\ UNCHANGED <<pc, idx, ticks, sinceCall, sinceSlot, dispatched, late,
                   sinceBegin, interval>>

Ticks_addTaskToSlot(slotIndex, task) ==
    /\ TimeSlotScheduler_addTaskToSlot(slotIndex, task)
    /\ UNCHANGED obsVars

Ticks_slotTick ==
    /\ TimeSlotScheduler_tick
    /\ ticks' = CountUp(ticks, UINT_MOD)
    /\ sinceSlot' = CountUp(sinceSlot, UINT_MOD)
    /\ UNCHANGED <<pc, idx, sinceCall, sinceRun, dispatched, late, sinceBegin, interval>>

Ticks_slotRun ==
    /\ TimeSlotScheduler_run
    /\ sinceSlot' = IF currentSlot_' # currentSlot_ THEN 0 ELSE sinceSlot
    /\ UNCHANGED <<pc, idx, ticks, sinceCall, sinceRun, dispatched, late,
                   sinceBegin, interval>>

NextTicks ==
    \/ \E task \in Tasks, periodMs \in Periods : Ticks_addTask(task, periodMs)
    \/ Ticks_tick
    \/ Ticks_run
    \/ \E slotIndex \in 0 .. SLOTS_PER_CYCLE, task \in SlotTasks :
          Ticks_addTaskToSlot(slotIndex, task)
    \/ Ticks_slotTick
    \/ Ticks_slotRun

SpecTicks == Init /\ [][NextTicks]_vars

-----------------------------------------------------------------------------
(* TimeSlotScheduler driven by a main loop: the tasks are put in their     *)
(* slots first, then tick() and run() are called.  The dispatches of each  *)
(* slot are counted.                                                       *)

\* a scheduler with slots of one tick or more
InitSlotDriven ==
    /\ InitTimeSlotScheduler
    /\ slotDurationMs_ >= 1

\* the fixture's setup: addTaskToSlot calls before the first tick() and run()
Driven_addTaskToSlot(slotIndex, task) ==
    /\ lastOp \in {"ctor", "addTaskToSlot"}
    /\ TimeSlotScheduler_addTaskToSlot(slotIndex, task)
    /\ UNCHANGED obsVars

\* run(), with the dispatch of the current slot counted
Driven_run ==
    /\ TimeSlotScheduler_run
    /\ sinceCall' = 0
    /\ dispatched' = IF currentSlot_' # currentSlot_
                     THEN [dispatched EXCEPT ![currentSlot_] = @ + 1]
                     ELSE dispatched
    /\ UNCHANGED <<pc, idx, ticks, sinceRun, sinceSlot, late, sinceBegin, interval>>

\* tick(); late records that it came while a slot transition was due
Driven_tick ==
    /\ TimeSlotScheduler_tick
    /\ ticks' = ticks + 1
    /\ sinceCall' = sinceCall + 1
    /\ late' = (late \/ Elapsed(currentTimeMs_, lastSlotTimeMs_) >= slotDurationMs_)
    /\ UNCHANGED <<pc, idx, sinceRun, sinceSlot, dispatched, sinceBegin, interval>>

\* ticks of one major cycle
MajorCycle == SLOTS_PER_CYCLE * slotDurationMs_

\* run() is invoked at least once per slot duration: no more than
\* slotDurationMs_ ticks pass without a run() call; one major cycle is driven
Polled_tick ==
    /\ sinceCall < slotDurationMs_
    /\ ticks < MajorCycle
    /\ Driven_tick

NextSlotPolled ==
    \/ \E slotIndex \in 0 .. SLOTS_PER_CYCLE, task \in SlotTasks :
          Driven_addTaskToSlot(slotIndex, task)
    \/ Polled_tick
    \/ Driven_run

SpecSlotPolled == InitSlotDriven /\ [][NextSlotPolled]_vars

\* run() is invoked less often than once per slot duration: two or more slot
\* durations pass between consecutive run() calls (and before the first)
Infrequent_run ==
    /\ sinceCall >= 2 * slotDurationMs_
    /\ Driven_run

\* two major cycles are driven; the time between two run() calls stays below
\* the modulus of the counter
Infrequent_tick ==
    /\ ticks < 2 * MajorCycle
    /\ sinceCall + 1 < UINT_MOD
    /\ Driven_tick

NextSlotInfrequent ==
    \/ \E slotIndex \in 0 .. SLOTS_PER_CYCLE, task \in SlotTasks :
          Driven_addTaskToSlot(slotIndex, task)
    \/ Infrequent_tick
    \/ Infrequent_run

SpecSlotInfrequent == InitSlotDriven /\ [][NextSlotInfrequent]_vars

-----------------------------------------------------------------------------
(* TimeSlotScheduler::run() statement by statement, with tick() called     *)
(* from the timer interrupt: between run() calls, and while a task of the  *)
(* current slot is executing.  currentTimeMs_ is volatile: run() reads it  *)
(* once for elapsed and once more for lastSlotTimeMs_.  The main loop      *)
(* calls run() at least once per tick, and the tasks of a slot take fewer  *)
(* ticks than a slot duration.                                             *)

\* faulty variant: the loop stops one task early
SlotLoopContinues_skipLast(i, slot) == i + 1 < slot.taskCount

\* for (size_t i = 0; i < slot.taskCount; ++i)
SlotLoopContinues(i, slot) == i < slot.taskCount

\* uint32_t elapsed = currentTimeMs_ - lastSlotTimeMs_;
\* if (elapsed >= slotDurationMs_) { Slot& slot = slots_[currentSlot_]; i = 0
ISR_runBegin ==
    /\ sched = "TimeSlotScheduler"
    /\ pc = "idle"
    /\ IF Elapsed(currentTimeMs_, lastSlotTimeMs_) >= slotDurationMs_
       THEN /\ pc' = "tasks"
            /\ idx' = 0
            /\ interval' = sinceBegin
            /\ sinceBegin' = 0
       ELSE UNCHANGED <<pc, idx, interval, sinceBegin>>
    /\ calls' = <<>>
    /\ lastOp' = "run"
    /\ runsInRow' = IF runsInRow = 0 THEN 1 ELSE 2
    /\ lastRet' = TRUE
    /\ sinceCall' = 0
    /\ UNCHANGED <<sched, currentTimeMs_, slots_, slotDurationMs_, currentSlot_,
                   lastSlotTimeMs_, slotAddOk>>
    /\ UNCHANGED ceVars
    /\ UNCHANGED exampleVars
    /\ UNCHANGED <<ticks, sinceRun, sinceSlot, dispatched, late>>

\* slot.tasks[i]->run(); ++i
ISR_runTask ==
    /\ sched = "TimeSlotScheduler"
    /\ pc = "tasks"
    /\ SlotLoopContinues(idx, slots_[currentSlot_])
    /\ calls' = Append(calls, [index |-> idx, task |-> slots_[currentSlot_].tasks[idx + 1]])
    /\ idx' = idx + 1
    /\ UNCHANGED <<sched, currentTimeMs_, slots_, slotDurationMs_, currentSlot_,
                   lastSlotTimeMs_, slotAddOk, lastOp, lastRet, runsInRow>>
    /\ UNCHANGED ceVars
    /\ UNCHANGED exampleVars
    /\ UNCHANGED <<pc, ticks, sinceCall, sinceRun, sinceSlot, dispatched, late,
                   sinceBegin, interval>>

\* currentSlot_ = (currentSlot_ + 1) % SLOTS_PER_CYCLE;
\* lastSlotTimeMs_ = currentTimeMs_;
ISR_runAdvance ==
    /\ sched = "TimeSlotScheduler"
    /\ pc = "tasks"
    /\ ~SlotLoopContinues(idx, slots_[currentSlot_])
    /\ currentSlot_' = (currentSlot_ + 1) % SLOTS_PER_CYCLE
    /\ lastSlotTimeMs_' = currentTimeMs_
    /\ pc' = "idle"
    /\ idx' = 0
    /\ UNCHANGED <<sched, currentTimeMs_, slots_, slotDurationMs_, slotAddOk,
                   lastOp, lastRet, runsInRow, calls>>
    /\ UNCHANGED ceVars
    /\ UNCHANGED exampleVars
    /\ UNCHANGED <<ticks, sinceCall, sinceRun, sinceSlot, dispatched, late,
                   sinceBegin, interval>>

\* tick() between two run() calls; run() has been called since the tick before
ISR_tickBetweenRuns ==
    /\ pc = "idle"
    /\ sinceCall = 0
    /\ TimeSlotScheduler_tick
    /\ sinceCall' = 1
    /\ sinceBegin' = sinceBegin + 1
    /\ UNCHANGED <<pc, idx, ticks, sinceRun, sinceSlot, dispatched, late, interval>>

\* tick() from the interrupt while slot.tasks[i]->run() executes; the tasks
\* of the slot take fewer than slotDurationMs_ ticks
ISR_tickDuringTask ==
    /\ sched = "TimeSlotScheduler"
    /\ pc = "tasks"
    /\ SlotLoopContinues(idx, slots_[currentSlot_])
    /\ sinceBegin + 1 < slotDurationMs_
    /\ currentTimeMs_' = U32Add(currentTimeMs_, 1)
    /\ sinceBegin' = sinceBegin + 1
    /\ UNCHANGED <<sched, slots_, slotDurationMs_, currentSlot_, lastSlotTimeMs_,
                   slotAddOk, lastOp, lastRet, runsInRow, calls>>
    /\ UNCHANGED ceVars
    /\ UNCHANGED exampleVars
    /\ UNCHANGED <<pc, idx, ticks, sinceCall, sinceRun, sinceSlot, dispatched, late,
                   interval>>

NextSlotISR ==
    \/ \E slotIndex \in 0 .. SLOTS_PER_CYCLE, task \in SlotTasks :
          Driven_addTaskToSlot(slotIndex, task)
    \/ ISR_runBegin
    \/ ISR_runTask
    \/ ISR_runAdvance
    \/ ISR_tickBetweenRuns
    \/ ISR_tickDuringTask

SpecSlotISR == InitTimeSlotScheduler /\ [][NextSlotISR]_vars

-----------------------------------------------------------------------------
(* CyclicExecutive::run() statement by statement, with tick() called from  *)
(* the timer interrupt at any point: between run() calls, between entries, *)
(* between the test of elapsed and the task, and between the task and the  *)
(* write of lastRunMs.  currentTimeMs_ is volatile and read twice per      *)
(* executed entry.  The tasks are registered before the main loop starts;  *)
(* the scheduler is driven until the counter has wrapped once.             *)

\* for (size_t i = 0; i < numTasks_; ++i)
EntryLoopContinues(i, n) == i < n

\* the fixture's setup: addTask calls before the first tick() and run()
CycISR_addTask(task, periodMs) ==
    /\ lastOp \in {"ctor", "addTask"}
    /\ Ticks_addTask(task, periodMs)

\* run() is entered: i = 0
CycISR_runBegin ==
    /\ sched = "CyclicExecutive"
    /\ pc = "idle"
    /\ pc' = "loop"
    /\ idx' = 0
    /\ calls' = <<>>
    /\ lastOp' = "run"
    /\ runsInRow' = IF runsInRow = 0 THEN 1 ELSE 2
    /\ lastRet' = TRUE
    /\ UNCHANGED <<sched, currentTimeMs_>>
    /\ UNCHANGED ceVars
    /\ UNCHANGED tsVars
    /\ UNCHANGED exampleVars
    /\ UNCHANGED <<ticks, sinceCall, sinceRun, sinceSlot, dispatched, late,
                   sinceBegin, interval>>

\* uint32_t elapsed = currentTimeMs_ - entry.lastRunMs;
\* if (elapsed >= entry.periodMs)   -- else ++i
CycISR_test ==
    /\ sched = "CyclicExecutive"
    /\ pc = "loop"
    /\ EntryLoopContinues(idx, numTasks_)
    /\ IF Due(tasks_[idx + 1], currentTimeMs_)
       THEN /\ tasks_[idx + 1].runCount < MaxRuns
            /\ pc' = "task"
            /\ idx' = idx
       ELSE /\ pc' = "loop"
            /\ idx' = idx + 1
    /\ UNCHANGED <<sched, currentTimeMs_, lastOp, lastRet, runsInRow, calls>>
    /\ UNCHANGED ceVars
    /\ UNCHANGED tsVars
    /\ UNCHANGED exampleVars
    /\ UNCHANGED <<ticks, sinceCall, sinceRun, sinceSlot, dispatched, late,
                   sinceBegin, interval>>

\* entry.task->run();
CycISR_task ==
    /\ sched = "CyclicExecutive"
    /\ pc = "task"
    /\ calls' = Append(calls, [index |-> idx, task |-> tasks_[idx + 1].task])
    /\ pc' = "stamp"
    /\ UNCHANGED <<sched, currentTimeMs_, lastOp, lastRet, runsInRow, idx>>
    /\ UNCHANGED ceVars
    /\ UNCHANGED tsVars
    /\ UNCHANGED exampleVars
    /\ UNCHANGED <<ticks, sinceCall, sinceRun, sinceSlot, dispatched, late,
                   sinceBegin, interval>>

\* entry.lastRunMs = currentTimeMs_; entry.runCount++;   -- then ++i
CycISR_stamp ==
    /\ sched = "CyclicExecutive"
    /\ pc = "stamp"
    /\ tasks_' = [tasks_ EXCEPT ![idx + 1] = Executed(@, currentTimeMs_)]
    /\ sinceRun' = [sinceRun EXCEPT ![idx + 1] = 0]
    /\ pc' = "loop"
    /\ idx' = idx + 1
    /\ UNCHANGED <<sched, currentTimeMs_, lastOp, lastRet, runsInRow, calls,
                   numTasks_, addOk>>
    /\ UNCHANGED tsVars
    /\ UNCHANGED exampleVars
    /\ UNCHANGED <<ticks, sinceCall, sinceSlot, dispatched, late, sinceBegin, interval>>

\* the loop is left and run() returns
CycISR_runEnd ==
    /\ sched = "CyclicExecutive"
    /\ pc = "loop"
    /\ ~EntryLoopContinues(idx, numTasks_)
    /\ pc' = "idle"
    /\ idx' = 0
    /\ UNCHANGED <<sched, currentTimeMs_, lastOp, lastRet, runsInRow, calls>>
    /\ UNCHANGED ceVars
    /\ UNCHANGED tsVars
    /\ UNCHANGED exampleVars
    /\ UNCHANGED <<ticks, sinceCall, sinceRun, sinceSlot, dispatched, late,
                   sinceBegin, interval>>

\* tick() between two run() calls
CycISR_tickBetweenRuns ==
    /\ pc = "idle"
    /\ ticks < UINT_MOD
    /\ Ticks_tick

\* tick() from the interrupt while run() is in progress
CycISR_tickDuringRun ==
    /\ sched = "CyclicExecutive"
    /\ pc # "idle"
    /\ ticks < UINT_MOD
    /\ currentTimeMs_' = U32Add(currentTimeMs_, 1)
    /\ ticks' = CountUp(ticks, UINT_MOD)
    /\ sinceRun' = [i \in 1 .. Len(sinceRun) |-> CountUp(sinceRun[i], UINT_MOD)]
    /\ UNCHANGED <<sched, lastOp, lastRet, runsInRow, calls>>
    /\ UNCHANGED ceVars
    /\ UNCHANGED tsVars
    /\ UNCHANGED exampleVars
    /\ UNCHANGED <<pc, idx, sinceCall, sinceSlot, dispatched, late, sinceBegin, interval>>

NextCyclicISR ==
    \/ \E task \in Tasks, periodMs \in Periods : CycISR_addTask(task, periodMs)
    \/ CycISR_runBegin
    \/ CycISR_test
    \/ CycISR_task
    \/ CycISR_stamp
    \/ CycISR_runEnd
    \/ CycISR_tickBetweenRuns
    \/ CycISR_tickDuringRun

SpecCyclicISR == InitCyclicExecutive /\ [][NextCyclicISR]_vars

-----------------------------------------------------------------------------
(* The fixtures of the other examples construct no scheduler.              *)

schedulerVars == <<tasks_, numTasks_, currentTimeMs_, slots_, slotDurationMs_,
                   currentSlot_, lastSlotTimeMs_, runsInRow, calls, addOk, slotAddOk>>

NoScheduler ==
    /\ tasks_ = NotConstructed
    /\ numTasks_ = NotConstructed
    /\ currentTimeMs_ = NotConstructed
    /\ slots_ = NotConstructed
    /\ slotDurationMs_ = NotConstructed
    /\ currentSlot_ = NotConstructed
    /\ lastSlotTimeMs_ = NotConstructed
    /\ runsInRow = 0
    /\ calls = <<>>
    /\ addOk = 0
    /\ slotAddOk = NotConstructed
    /\ InitObs

-----------------------------------------------------------------------------
(* The three heater state machines of StatePattern.hpp, fed the same       *)
(* events as in TEST_GROUP(AllImplementationsMatch).                       *)

\* events are fed while fewer than MaxEvents have been
MaxEvents == 4

\* enum class HeaterState
HeaterState == {"OFF", "HEATING", "TARGET_REACHED"}

\* enum class HeaterEvent
HeaterEvent == {"TURN_ON", "TURN_OFF", "TEMP_LOW", "TEMP_OK"}

\* HeaterSwitchCase::handleEvent: switch (state_) { switch (event) ... }
HeaterSwitchCase_handleEvent(h, event) ==
    CASE h.state_ = "OFF" ->
            (CASE event = "TURN_ON" -> [heaterOn_ |-> TRUE, state_ |-> "HEATING"]
               [] event = "TURN_OFF" -> h
               [] event \in {"TEMP_LOW", "TEMP_OK"} -> h)
      [] h.state_ = "HEATING" ->
            (CASE event = "TURN_OFF" -> [heaterOn_ |-> FALSE, state_ |-> "OFF"]
               [] event = "TEMP_OK" -> [heaterOn_ |-> FALSE, state_ |-> "TARGET_REACHED"]
               [] event \in {"TURN_ON", "TEMP_LOW"} -> h)
      [] h.state_ = "TARGET_REACHED" ->
            (CASE event = "TURN_OFF" -> [h EXCEPT !.state_ = "OFF"]
               [] event = "TEMP_LOW" -> [heaterOn_ |-> TRUE, state_ |-> "HEATING"]
               [] event \in {"TURN_ON", "TEMP_OK"} -> h)

\* faulty variant: the row TARGET_REACHED / TURN_OFF is missing
transitions_noOffFromTarget ==
    << [currentState |-> "OFF", event |-> "TURN_ON",
        nextState |-> "HEATING", action |-> "turnHeaterOn"],
       [currentState |-> "HEATING", event |-> "TURN_OFF",
        nextState |-> "OFF", action |-> "turnHeaterOff"],
       [currentState |-> "HEATING", event |-> "TEMP_OK",
        nextState |-> "TARGET_REACHED", action |-> "turnHeaterOff"],
       [currentState |-> "TARGET_REACHED", event |-> "TEMP_LOW",
        nextState |-> "HEATING", action |-> "turnHeaterOn"] >>

\* faulty variant: the row HEATING / TEMP_OK has no action
transitions_heaterStaysOn ==
    << [currentState |-> "OFF", event |-> "TURN_ON",
        nextState |-> "HEATING", action |-> "turnHeaterOn"],
       [currentState |-> "HEATING", event |-> "TURN_OFF",
        nextState |-> "OFF", action |-> "turnHeaterOff"],
       [currentState |-> "HEATING", event |-> "TEMP_OK",
        nextState |-> "TARGET_REACHED", action |-> "nullptr"],
       [currentState |-> "TARGET_REACHED", event |-> "TURN_OFF",
        nextState |-> "OFF", action |-> "nullptr"],
       [currentState |-> "TARGET_REACHED", event |-> "TEMP_LOW",
        nextState |-> "HEATING", action |-> "turnHeaterOn"] >>

\* const Transition transitions_[NUM_TRANSITIONS]
transitions_ ==
    << [currentState |-> "OFF", event |-> "TURN_ON",
        nextState |-> "HEATING", action |-> "turnHeaterOn"],
       [currentState |-> "HEATING", event |-> "TURN_OFF",
        nextState |-> "OFF", action |-> "turnHeaterOff"],
       [currentState |-> "HEATING", event |-> "TEMP_OK",
        nextState |-> "TARGET_REACHED", action |-> "turnHeaterOff"],
       [currentState |-> "TARGET_REACHED", event |-> "TURN_OFF",
        nextState |-> "OFF", action |-> "nullptr"],
       [currentState |-> "TARGET_REACHED", event |-> "TEMP_LOW",
        nextState |-> "HEATING", action |-> "turnHeaterOn"] >>

\* if (transition.action) transition.action(*this);
TableAction(h, action) ==
    CASE action = "turnHeaterOn" -> [h EXCEPT !.heaterOn_ = TRUE]
      [] action = "turnHeaterOff" -> [h EXCEPT !.heaterOn_ = FALSE]
      [] action = "nullptr" -> h

\* HeaterStateTable::handleEvent: the first matching row, if there is one
HeaterStateTable_handleEvent(h, event) ==
    LET matching == {k \in 1 .. Len(transitions_) :
                        /\ transitions_[k].currentState = h.state_
                        /\ transitions_[k].event = event}
    IN  IF matching = {} THEN h
        ELSE LET k == CHOOSE m \in matching : \A o \in matching : m <= o
             IN  [TableAction(h, transitions_[k].action)
                     EXCEPT !.state_ = transitions_[k].nextState]

\* onEnter of the three IHeaterState classes
onEnter(state, c) ==
    IF state = "HeatingState" THEN [c EXCEPT !.heaterOn_ = TRUE] ELSE c

\* onExit of the three IHeaterState classes
onExit(state, c) ==
    IF state = "HeatingState" THEN [c EXCEPT !.heaterOn_ = FALSE] ELSE c

\* HeaterContext::transitionTo
transitionTo(c, newState) ==
    onEnter(newState, [onExit(c.currentState_, c) EXCEPT !.currentState_ = newState])

\* handleTurnOn / handleTurnOff / handleTempLow / handleTempOk of the state
\* classes: the state to go to, or "ignore"
StateHandler(state, event) ==
    CASE state = "OffState" ->
            (IF event = "TURN_ON" THEN "HeatingState" ELSE "ignore")
      [] state = "HeatingState" ->
            (CASE event = "TURN_OFF" -> "OffState"
               [] event = "TEMP_OK" -> "TargetReachedState"
               [] OTHER -> "ignore")
      [] state = "TargetReachedState" ->
            (CASE event = "TURN_OFF" -> "OffState"
               [] event = "TEMP_LOW" -> "HeatingState"
               [] OTHER -> "ignore")

\* HeaterContext::handleEvent
HeaterContext_handleEvent(c, event) ==
    LET target == StateHandler(c.currentState_, event)
    IN  IF target = "ignore" THEN c ELSE transitionTo(c, target)

\* getStateId of the state classes
getStateId(state) ==
    CASE state = "OffState" -> "OFF"
      [] state = "HeatingState" -> "HEATING"
      [] state = "TargetReachedState" -> "TARGET_REACHED"

\* getState() of the three heaters, by fixture name
getState ==
    [switchCase   |-> switchCase.state_,
     stateTable   |-> stateTable.state_,
     statePattern |-> getStateId(statePattern.currentState_)]

\* isHeaterOn() of the three heaters
isHeaterOn ==
    [switchCase   |-> switchCase.heaterOn_,
     stateTable   |-> stateTable.heaterOn_,
     statePattern |-> statePattern.heaterOn_]

\* setup(): new HeaterSwitchCase(), new HeaterStateTable(), new HeaterContext()
InitHeaters ==
    /\ sched = "Heaters"
    /\ switchCase = [state_ |-> "OFF", heaterOn_ |-> FALSE]
    /\ stateTable = [state_ |-> "OFF", heaterOn_ |-> FALSE]
    /\ statePattern = [currentState_ |-> "OffState", heaterOn_ |-> FALSE]
    /\ events = <<>>
    /\ lastOp = "ctor"
    /\ lastRet = TRUE
    /\ NoScheduler /\ NoDebouncer /\ NoSubject /\ NoController

\* the loop body of SameResultsForFullCycle: the event goes to all three
Heaters_handleEvent(event) ==
    /\ sched = "Heaters"
    /\ Len(events) < MaxEvents
    /\ switchCase' = HeaterSwitchCase_handleEvent(switchCase, event)
    /\ stateTable' = HeaterStateTable_handleEvent(stateTable, event)
    /\ statePattern' = HeaterContext_handleEvent(statePattern, event)
    /\ events' = Append(events, event)
    /\ lastOp' = "handleEvent"
    /\ lastRet' = TRUE
    /\ UNCHANGED <<sched, schedulerVars, obsVars, debouncerVars, subjectVars,
                   controllerVars>>

NextHeaters == \E event \in HeaterEvent : Heaters_handleEvent(event)

SpecHeaters == InitHeaters /\ [][NextHeaters]_vars

-----------------------------------------------------------------------------
(* DelayDebouncer of Debouncing.hpp on a MockButton, as in                 *)
(* TEST_GROUP(DelayDebouncer).                                             *)

\* debounce times 1 .. MaxDebounce are constructed
MaxDebounce == 3

\* the raw values update() has read: the last one, how many updates in a
\* row have read it, and whether it differs from the one read before
\* (before the first update: from the released button)
Seen(s, currentRaw) ==
    IF currentRaw # s.raw
    THEN [raw |-> currentRaw, count |-> 1, changed |-> TRUE]
    ELSE [s EXCEPT !.count = CountUp(s.count, MaxDebounce + 1)]

\* DelayDebouncer::update
DelayDebouncer_updated(d, currentRaw) ==
    LET cleared == [d EXCEPT !.stateChanged_ = FALSE]
    IN  IF currentRaw # d.lastRaw_
        THEN [cleared EXCEPT !.counter_ = 0, !.lastRaw_ = currentRaw]
        ELSE IF d.counter_ < d.debounceMs_
             THEN LET counted == [cleared EXCEPT !.counter_ = d.counter_ + 1]
                  IN  IF counted.counter_ >= d.debounceMs_
                         /\ currentRaw # d.debouncedState_
                      THEN [counted EXCEPT !.debouncedState_ = currentRaw,
                                           !.stateChanged_ = TRUE]
                      ELSE counted
             ELSE cleared

\* DelayDebouncer::isPressed
isPressed == debouncer.debouncedState_

\* DelayDebouncer::stateChanged
stateChanged == debouncer.stateChanged_

\* setup(): new MockButton(), new DelayDebouncer(*button, debounceMs)
InitDebouncer ==
    /\ sched = "DelayDebouncer"
    /\ \E debounceMs \in 1 .. MaxDebounce :
          debouncer = [debounceMs_ |-> debounceMs, counter_ |-> 0,
                       lastRaw_ |-> FALSE, debouncedState_ |-> FALSE,
                       stateChanged_ |-> FALSE]
    /\ button = [pressed_ |-> FALSE]
    /\ seen = [raw |-> FALSE, count |-> 0, changed |-> FALSE]
    /\ lastOp = "ctor"
    /\ lastRet = TRUE
    /\ NoScheduler /\ NoHeaters /\ NoSubject /\ NoController

\* MockButton::press
MockButton_press ==
    /\ sched = "DelayDebouncer"
    /\ button' = [button EXCEPT !.pressed_ = TRUE]
    /\ lastOp' = "press"
    /\ UNCHANGED <<sched, lastRet, debouncer, seen, schedulerVars, obsVars,
                   heaterVars, subjectVars, controllerVars>>

\* MockButton::release
MockButton_release ==
    /\ sched = "DelayDebouncer"
    /\ button' = [button EXCEPT !.pressed_ = FALSE]
    /\ lastOp' = "release"
    /\ UNCHANGED <<sched, lastRet, debouncer, seen, schedulerVars, obsVars,
                   heaterVars, subjectVars, controllerVars>>

\* debouncer->update(), reading the button through MockButton::readRaw
DelayDebouncer_update ==
    /\ sched = "DelayDebouncer"
    /\ debouncer' = DelayDebouncer_updated(debouncer, button.pressed_)
    /\ seen' = Seen(seen, button.pressed_)
    /\ lastOp' = "update"
    /\ UNCHANGED <<sched, lastRet, button, schedulerVars, obsVars,
                   heaterVars, subjectVars, controllerVars>>

NextDebouncer ==
    \/ MockButton_press
    \/ MockButton_release
    \/ DelayDebouncer_update

SpecDebouncer == InitDebouncer /\ [][NextDebouncer]_vars

-----------------------------------------------------------------------------
(* ButtonSubject of Observer.hpp with the two observers of                 *)
(* TEST_GROUP(ButtonSubject).  observers_ is kept as the sequence of its   *)
(* first numObservers_ elements, the only ones the code reads.             *)

\* template parameter MAX_OBSERVERS of ButtonSubject<4>
MAX_OBSERVERS == 4

\* the IButtonObserver objects of the fixture
Observers == {"ledController", "logger"}

\* ButtonSubject::attach: the return value
AttachReturns(sub) == ~(sub.numObservers_ >= MAX_OBSERVERS)

\* ButtonSubject::attach: the subject afterwards
Attached(sub, observer) ==
    IF sub.numObservers_ >= MAX_OBSERVERS THEN sub
    ELSE [observers_ |-> Append(sub.observers_, observer),
          numObservers_ |-> sub.numObservers_ + 1]

\* ButtonSubject::detach: the indexes i with observers_[i] == observer
Found(sub, observer) ==
    {i \in 1 .. sub.numObservers_ : sub.observers_[i] = observer}

\* ButtonSubject::detach: the return value
DetachReturns(sub, observer) == Found(sub, observer) # {}

\* ButtonSubject::detach: the first occurrence is removed, the rest shifted
Detached(sub, observer) ==
    IF Found(sub, observer) = {} THEN sub
    ELSE LET i == CHOOSE k \in Found(sub, observer) :
                      \A o \in Found(sub, observer) : k <= o
         IN  [observers_ |-> [j \in 1 .. sub.numObservers_ - 1 |->
                                 IF j < i THEN sub.observers_[j]
                                 ELSE sub.observers_[j + 1]],
              numObservers_ |-> sub.numObservers_ - 1]

\* ButtonSubject::notifyPressed / notifyReleased: the observers called, in order
Notified(sub) == [i \in 1 .. sub.numObservers_ |-> sub.observers_[i]]

\* setup(): new ButtonSubject<4>(), new LedController(), new EventLogger()
InitSubject ==
    /\ sched = "ButtonSubject"
    /\ subject = [observers_ |-> <<>>, numObservers_ |-> 0]
    /\ detached = {}
    /\ received = <<>>
    /\ lastOp = "ctor"
    /\ lastRet = TRUE
    /\ NoScheduler /\ NoHeaters /\ NoDebouncer /\ NoController

\* subject->attach(observer)
ButtonSubject_attach(observer) ==
    /\ sched = "ButtonSubject"
    /\ subject' = Attached(subject, observer)
    /\ lastRet' = AttachReturns(subject)
    /\ detached' = IF AttachReturns(subject) THEN detached \ {observer}
                   ELSE detached
    /\ lastOp' = "attach"
    /\ UNCHANGED <<sched, received, schedulerVars, obsVars, heaterVars,
                   debouncerVars, controllerVars>>

\* subject->detach(observer)
ButtonSubject_detach(observer) ==
    /\ sched = "ButtonSubject"
    /\ subject' = Detached(subject, observer)
    /\ lastRet' = DetachReturns(subject, observer)
    /\ detached' = IF DetachReturns(subject, observer)
                   THEN detached \cup {observer} ELSE detached
    /\ lastOp' = "detach"
    /\ UNCHANGED <<sched, received, schedulerVars, obsVars, heaterVars,
                   debouncerVars, controllerVars>>

\* subject->notifyPressed(buttonId)
ButtonSubject_notifyPressed ==
    /\ sched = "ButtonSubject"
    /\ received' = Notified(subject)
    /\ lastOp' = "notifyPressed"
    /\ UNCHANGED <<sched, lastRet, subject, detached, schedulerVars, obsVars,
                   heaterVars, debouncerVars, controllerVars>>

\* subject->notifyReleased(buttonId)
ButtonSubject_notifyReleased ==
    /\ sched = "ButtonSubject"
    /\ received' = Notified(subject)
    /\ lastOp' = "notifyReleased"
    /\ UNCHANGED <<sched, lastRet, subject, detached, schedulerVars, obsVars,
                   heaterVars, debouncerVars, controllerVars>>

NextSubject ==
    \/ \E observer \in Observers : ButtonSubject_attach(observer)
    \/ \E observer \in Observers : ButtonSubject_detach(observer)
    \/ ButtonSubject_notifyPressed
    \/ ButtonSubject_notifyReleased

SpecSubject == InitSubject /\ [][NextSubject]_vars

-----------------------------------------------------------------------------
(* TemperatureController of temperature_controller.cpp on the mocks of     *)
(* TEST_GROUP(TemperatureControllerFault).  Temperatures are whole degrees *)
(* Celsius; of the mocks' call counters the model keeps the calls made by  *)
(* the last update().                                                      *)

\* temperatures and setpoints lie within TempSpan degrees of the default
TempSpan == 2

\* ControllerConfig::setpoint = 20.0F, MockTemperatureSensor m_temperature{20.0F}
DefaultSetpoint == 20

\* ControllerConfig::hysteresis = 1.0F
DefaultHysteresis == 1

Temperatures == DefaultSetpoint - TempSpan .. DefaultSetpoint + TempSpan

\* MockHeater::turnOn
turnOn(h) == [h EXCEPT !.m_isOn = TRUE]

\* MockHeater::turnOff
turnOff(h) == [h EXCEPT !.m_isOn = FALSE]

\* faulty variant: the fault branch leaves the heater as it is
TemperatureController_updated_heaterKept(c, s, h) ==
    IF ~s.m_healthy
    THEN [controller |-> [c EXCEPT !.m_inFault = TRUE],
          heater |-> h, heaterCalls |-> <<>>, sensorReads |-> 0]
    ELSE LET error == c.m_config.setpoint - s.m_temperature
             read == [c EXCEPT !.m_inFault = FALSE,
                               !.m_lastReading = s.m_temperature]
         IN  IF error > c.m_config.hysteresis
             THEN [controller |-> read, heater |-> turnOn(h),
                   heaterCalls |-> <<"turnOn">>, sensorReads |-> 1]
             ELSE IF error < -c.m_config.hysteresis
             THEN [controller |-> read, heater |-> turnOff(h),
                   heaterCalls |-> <<"turnOff">>, sensorReads |-> 1]
             ELSE [controller |-> read, heater |-> h,
                   heaterCalls |-> <<>>, sensorReads |-> 1]

\* TemperatureController::update: the controller and the heater afterwards,
\* the calls made on the heater and the number of m_sensor.read() calls
TemperatureController_updated(c, s, h) ==
    IF ~s.m_healthy
    THEN [controller |-> [c EXCEPT !.m_inFault = TRUE],
          heater |-> turnOff(h), heaterCalls |-> <<"turnOff">>,
          sensorReads |-> 0]
    ELSE LET error == c.m_config.setpoint - s.m_temperature
             read == [c EXCEPT !.m_inFault = FALSE,
                               !.m_lastReading = s.m_temperature]
         IN  IF error > c.m_config.hysteresis
             THEN [controller |-> read, heater |-> turnOn(h),
                   heaterCalls |-> <<"turnOn">>, sensorReads |-> 1]
             ELSE IF error < -c.m_config.hysteresis
             THEN [controller |-> read, heater |-> turnOff(h),
                   heaterCalls |-> <<"turnOff">>, sensorReads |-> 1]
             ELSE [controller |-> read, heater |-> h,
                   heaterCalls |-> <<>>, sensorReads |-> 1]

\* TemperatureController::isInFault
isInFault == controller.m_inFault

\* MockHeater::isOn
isOn == heater.m_isOn

\* setup(): new MockTemperatureSensor(), new MockHeater(),
\* new TemperatureController(*sensor, *heater)
InitController ==
    /\ sched = "TemperatureController"
    /\ controller = [m_config |-> [setpoint |-> DefaultSetpoint,
                                   hysteresis |-> DefaultHysteresis],
                     m_lastReading |-> 0, m_inFault |-> FALSE]
    /\ sensor = [m_temperature |-> DefaultSetpoint, m_healthy |-> TRUE]
    /\ heater = [m_isOn |-> FALSE]
    /\ heaterCalls = <<>>
    /\ sensorReads = 0
    /\ lastOp = "ctor"
    /\ lastRet = TRUE
    /\ NoScheduler /\ NoHeaters /\ NoDebouncer /\ NoSubject

\* sensor->setTemperature(temperature)
MockTemperatureSensor_setTemperature(temperature) ==
    /\ sched = "TemperatureController"
    /\ sensor' = [sensor EXCEPT !.m_temperature = temperature]
    /\ lastOp' = "setTemperature"
    /\ UNCHANGED <<sched, lastRet, controller, heater, heaterCalls, sensorReads,
                   schedulerVars, obsVars, heaterVars, debouncerVars, subjectVars>>

\* sensor->setHealthy(healthy)
MockTemperatureSensor_setHealthy(healthy) ==
    /\ sched = "TemperatureController"
    /\ sensor' = [sensor EXCEPT !.m_healthy = healthy]
    /\ lastOp' = "setHealthy"
    /\ UNCHANGED <<sched, lastRet, controller, heater, heaterCalls, sensorReads,
                   schedulerVars, obsVars, heaterVars, debouncerVars, subjectVars>>

\* heater->turnOn() called by the test itself
MockHeater_turnOn ==
    /\ sched = "TemperatureController"
    /\ heater' = turnOn(heater)
    /\ lastOp' = "turnOn"
    /\ UNCHANGED <<sched, lastRet, controller, sensor, heaterCalls, sensorReads,
                   schedulerVars, obsVars, heaterVars, debouncerVars, subjectVars>>

\* controller->setSetpoint(setpoint)
TemperatureController_setSetpoint(setpoint) ==
    /\ sched = "TemperatureController"
    /\ controller' = [controller EXCEPT !.m_config.setpoint = setpoint]
    /\ lastOp' = "setSetpoint"
    /\ UNCHANGED <<sched, lastRet, sensor, heater, heaterCalls, sensorReads,
                   schedulerVars, obsVars, heaterVars, debouncerVars, subjectVars>>

\* controller->update()
TemperatureController_update ==
    /\ sched = "TemperatureController"
    /\ LET after == TemperatureController_updated(controller, sensor, heater)
       IN  /\ controller' = after.controller
           /\ heater' = after.heater
           /\ heaterCalls' = after.heaterCalls
           /\ sensorReads' = after.sensorReads
    /\ lastOp' = "update"
    /\ UNCHANGED <<sched, lastRet, sensor, schedulerVars, obsVars, heaterVars,
                   debouncerVars, subjectVars>>

NextController ==
    \/ \E temperature \in Temperatures :
          MockTemperatureSensor_setTemperature(temperature)
    \/ \E healthy \in BOOLEAN : MockTemperatureSensor_setHealthy(healthy)
    \/ MockHeater_turnOn
    \/ \E setpoint \in Temperatures : TemperatureController_setSetpoint(setpoint)
    \/ TemperatureController_update

SpecController == InitController /\ [][NextController]_vars

-----------------------------------------------------------------------------
(* Vocabulary of the properties *)

IsCE == sched = "CyclicExecutive"

IsTS == sched = "TimeSlotScheduler"

\* the step is a call of CyclicExecutive::run()
CERunStep == IsCE /\ lastOp' = "run"

\* the step is a call of TimeSlotScheduler::run()
TSRunStep == IsTS /\ lastOp' = "run"

\* how many of the task calls in c were made for entry index (C++ index)
TimesCalled(c, index) == Cardinality({k \in 1 .. Len(c) : c[k].index = index})

\* elapsed time as the program computes it, written out
ElapsedSince(last) ==
    IF currentTimeMs_ >= last THEN currentTimeMs_ - last
    ELSE currentTimeMs_ + UINT_MOD - last

-----------------------------------------------------------------------------
(* C1: CyclicExecutive::run() executes an entry if and only if             *)
(* (current time - lastRunMs) >= periodMs when it examines the entry; so   *)
(* an entry registered at time 0 with period P >= 1 and never run before   *)
(* is run (run count 1) by a run() at time P and is not run (run count 0)  *)
(* by a run() at time P - 1.                                               *)
C1_RunsIffPeriodElapsed ==
    [][CERunStep =>
        \A i \in 1 .. numTasks_ :
           LET e == tasks_[i] IN
           /\ (TimesCalled(calls', i - 1) >= 1) <=> (ElapsedSince(e.lastRunMs) >= e.periodMs)
           /\ (e.periodMs >= 1 /\ e.runCount = 0 /\ e.lastRunMs = 0) =>
                 /\ currentTimeMs_ = e.periodMs => tasks_'[i].runCount = 1
                 /\ currentTimeMs_ = e.periodMs - 1 => tasks_'[i].runCount = 0
    ]_vars

\* after a run() at time 1: the period-1 entry has run once, the period-2
\* entry (P - 1 ticks) has not run
C1_Witness ==
    /\ IsCE /\ lastOp = "run" /\ numTasks_ = 2
    /\ \E i, j \in 1 .. numTasks_ :
          /\ tasks_[i].periodMs >= 1 /\ tasks_[i].periodMs = currentTimeMs_
          /\ tasks_[i].runCount = 1 /\ TimesCalled(calls, i - 1) = 1
          /\ tasks_[j].periodMs = currentTimeMs_ + 1
          /\ tasks_[j].runCount = 0 /\ TimesCalled(calls, j - 1) = 0

C3_CatchesUpEveryPeriod ==
    [][CERunStep =>
        \A i \in 1 .. numTasks_ :
           LET e == tasks_[i] IN
           e.periodMs >= 1 =>
              tasks_'[i].runCount = e.runCount + (ElapsedSince(e.lastRunMs) \div e.periodMs)
    ]_vars

(* C4: with run() called once after every tick() and all tasks registered  *)
(* at time 0, an entry of period P >= 1 has run exactly floor(t / P) times *)
(* when the time counter is t.                                             *)
C4_LockstepFloor ==
    IsCE =>
       \A i \in 1 .. numTasks_ :
          tasks_[i].periodMs >= 1 =>
             getTaskRunCount(i - 1) = currentTimeMs_ \div tasks_[i].periodMs

\* at time 5 the period-1 task has fired 5 times and the period-2 task 2 times
C4_Witness ==
    /\ IsCE /\ lastOp = "run" /\ currentTimeMs_ = 5 /\ numTasks_ = 2
    /\ tasks_[1].periodMs = 1 /\ getTaskRunCount(0) = 5
    /\ tasks_[2].periodMs = 2 /\ getTaskRunCount(1) = 2

(* C5: addTask on a registry that already holds MAX_TASKS entries returns  *)
(* false and changes nothing (task count, entries, time counter); with     *)
(* fewer entries it returns true and appends exactly one entry.            *)
C5_AddTaskAtCapacity ==
    [][(IsCE /\ lastOp' = "addTask") =>
        IF numTasks_ >= MAX_TASKS
        THEN /\ lastRet' = FALSE
             /\ numTasks_' = numTasks_ /\ numTasks_' = MAX_TASKS
             /\ tasks_' = tasks_
             /\ currentTimeMs_' = currentTimeMs_
        ELSE /\ lastRet' = TRUE
             /\ numTasks_' = numTasks_ + 1
             /\ currentTimeMs_' = currentTimeMs_
             /\ \E task \in Tasks, periodMs \in Periods :
                   tasks_' = tasks_ \o <<[task |-> task, periodMs |-> periodMs,
                                         lastRunMs |-> 0, runCount |-> 0]>>
    ]_vars

\* a rejected addTask on a full registry whose entries have run
C5_Witness ==
    /\ IsCE /\ lastOp = "addTask" /\ lastRet = FALSE
    /\ numTasks_ = MAX_TASKS /\ Len(tasks_) = MAX_TASKS
    /\ \E i \in 1 .. numTasks_ : tasks_[i].runCount >= 1 /\ tasks_[i].lastRunMs >= 1

(* C6: the task count equals the number of addTask calls that returned     *)
(* true and every slot's task count the number of addTaskToSlot calls for  *)
(* that slot that returned true; a failed attempt changes no count and no  *)
(* count exceeds its capacity.                                             *)
C6_CountsAreSuccessfulRegistrations ==
    /\ [](/\ getTaskCount = addOk
          /\ getTaskCount <= MAX_TASKS
          /\ Len(tasks_) = numTasks_
          /\ \A s \in 0 .. SLOTS_PER_CYCLE - 1 :
                /\ slots_[s].taskCount = slotAddOk[s]
                /\ slots_[s].taskCount <= MAX_TASKS_PER_SLOT
                /\ Len(slots_[s].tasks) = slots_[s].taskCount)
    /\ [][(lastOp' \in {"addTask", "addTaskToSlot"} /\ lastRet' = FALSE) =>
            /\ numTasks_' = numTasks_
            /\ \A s \in 0 .. SLOTS_PER_CYCLE - 1 :
                  slots_'[s].taskCount = slots_[s].taskCount
       ]_vars

\* a full slot that has just rejected a task, after ticks and a dispatch
C6_Witness ==
    /\ IsTS /\ lastOp = "addTaskToSlot" /\ lastRet = FALSE
    /\ currentTimeMs_ >= 1 /\ currentSlot_ >= 1
    /\ \E s \in 0 .. SLOTS_PER_CYCLE - 1 :
          slots_[s].taskCount = MAX_TASKS_PER_SLOT /\ slotAddOk[s] = MAX_TASKS_PER_SLOT

(* C7: within one run() call every due entry is executed, in registration  *)
(* order: the tasks called are exactly the due entries, by rising index.   *)
C7_AllDueInRegistrationOrder ==
    [][CERunStep =>
        /\ \A i \in 1 .. numTasks_ :
              ElapsedSince(tasks_[i].lastRunMs) >= tasks_[i].periodMs =>
                 TimesCalled(calls', i - 1) = 1
        /\ \A k \in 1 .. Len(calls') :
              /\ calls'[k].index \in 0 .. numTasks_ - 1
              /\ calls'[k].task = tasks_[calls'[k].index + 1].task
              /\ \A m \in 1 .. Len(calls') : k < m => calls'[k].index < calls'[m].index
    ]_vars

\* a pass that ran both entries, entry 0 before entry 1
C7_Witness ==
    /\ IsCE /\ lastOp = "run" /\ numTasks_ = 2
    /\ tasks_[1].periodMs >= 1 /\ tasks_[2].periodMs >= 1
    /\ Len(calls) = 2 /\ calls[1].index = 0 /\ calls[2].index = 1

(* C8: an entry registered with period 0 is executed exactly once by every *)
(* run() call, also by a run() that follows a run() with no tick between.  *)
C8_PeriodZeroRunsEveryPass ==
    [][CERunStep =>
        \A i \in 1 .. numTasks_ :
           tasks_[i].periodMs = 0 =>
              /\ TimesCalled(calls', i - 1) = 1
              /\ tasks_'[i].runCount = (tasks_[i].runCount + 1) % UINT_MOD
    ]_vars

\* the second of two run() calls in a row has run the period-0 entry again
C8_Witness ==
    /\ IsCE /\ lastOp = "run" /\ runsInRow = 2
    /\ \E i \in 1 .. numTasks_ :
          /\ tasks_[i].periodMs = 0
          /\ tasks_[i].runCount >= 2
          /\ TimesCalled(calls, i - 1) = 1

(* C9 as claimed: the second of two run() calls with no tick() between     *)
(* executes no task and changes no run count, whatever the periods.        *)
C9_SecondRunExecutesNothing ==
    [][(CERunStep /\ lastOp = "run") =>
        /\ calls' = <<>>
        /\ \A i \in 1 .. numTasks_ : tasks_'[i].runCount = tasks_[i].runCount
    ]_vars

(* C9 amended: a run() call that directly follows a run() call executes no *)
(* entry whose period is >= 1 and leaves its run count and lastRunMs as    *)
(* they were; it executes (once) exactly the entries whose period is 0.    *)
C9_SecondRunExecutesOnlyPeriodZero ==
    [][(CERunStep /\ lastOp = "run") =>
        \A i \in 1 .. numTasks_ :
           IF tasks_[i].periodMs >= 1
           THEN /\ TimesCalled(calls', i - 1) = 0
                /\ tasks_'[i] = tasks_[i]
           ELSE TimesCalled(calls', i - 1) = 1
    ]_vars

\* the second of two run() calls in a row: the period >= 1 entry that ran
\* at this time is not run again
C9_Witness ==
    /\ IsCE /\ lastOp = "run" /\ runsInRow = 2
    /\ \E i \in 1 .. numTasks_ :
          /\ tasks_[i].periodMs >= 1
          /\ tasks_[i].runCount = 1
          /\ tasks_[i].lastRunMs = currentTimeMs_
          /\ TimesCalled(calls, i - 1) = 0

(* C10 as claimed: for every slot duration the second of two               *)
(* TimeSlotScheduler::run() calls with no tick() between executes no task  *)
(* and leaves currentSlot and the last-transition time unchanged.          *)
C10_SecondSlotRunDoesNothing ==
    [][(TSRunStep /\ lastOp = "run") =>
        /\ calls' = <<>>
        /\ currentSlot_' = currentSlot_
        /\ lastSlotTimeMs_' = lastSlotTimeMs_
    ]_vars

(* C10 amended: for every slot duration >= 1 the second of two run() calls *)
(* in a row executes no task and leaves currentSlot and the                *)
(* last-transition time unchanged.                                         *)
C10_SecondSlotRunDoesNothingIfDurationPositive ==
    [][(TSRunStep /\ lastOp = "run" /\ slotDurationMs_ >= 1) =>
        /\ calls' = <<>>
        /\ currentSlot_' = currentSlot_
        /\ lastSlotTimeMs_' = lastSlotTimeMs_
    ]_vars

\* the second of two run() calls in a row, the first of which dispatched a
\* non-empty slot at this time
C10_Witness ==
    /\ IsTS /\ lastOp = "run" /\ runsInRow = 2 /\ slotDurationMs_ >= 1
    /\ calls = <<>>
    /\ lastSlotTimeMs_ = currentTimeMs_ /\ currentTimeMs_ >= 1
    /\ currentSlot_ = 1 /\ slots_[0].taskCount >= 1

\* the tasks a slot holds, as a set
TasksOfSlot(s) == {slots_[s].tasks[k] : k \in 1 .. slots_[s].taskCount}

\* the tasks called by the last operation, as a set
TasksCalled(c) == {c[k].task : k \in 1 .. Len(c)}

(* C11: tick() of either scheduler adds exactly one to the time counter,   *)
(* modulo the counter's width, executes no task and changes nothing else:  *)
(* entries, counts, slots, currentSlot, last-transition time.              *)
C11_TickTouchesOnlyTheCounter ==
    [][lastOp' = "tick" =>
        /\ currentTimeMs_' = (currentTimeMs_ + 1) % UINT_MOD
        /\ calls' = <<>>
        /\ tasks_' = tasks_ /\ numTasks_' = numTasks_
        /\ slots_' = slots_ /\ currentSlot_' = currentSlot_
        /\ lastSlotTimeMs_' = lastSlotTimeMs_ /\ slotDurationMs_' = slotDurationMs_
        /\ sched' = sched
    ]_vars

\* the tick that wraps the counter of a time-slot scheduler with tasks, after
\* dispatches
C11_Witness ==
    /\ IsTS /\ lastOp = "tick" /\ currentTimeMs_ = 0
    /\ currentSlot_ >= 1 /\ lastSlotTimeMs_ >= 1
    /\ \E s \in 0 .. SLOTS_PER_CYCLE - 1 : slots_[s].taskCount >= 1

(* C13: addTaskToSlot(slotIndex, task) returns false and changes nothing   *)
(* when slotIndex >= SLOTS_PER_CYCLE or the slot holds MAX_TASKS_PER_SLOT  *)
(* tasks; otherwise it returns true, appends the task at the end of that   *)
(* slot's list and leaves the other slots, currentSlot and the time fields *)
(* unchanged.                                                              *)
C13_AddTaskToSlot ==
    [][(IsTS /\ lastOp' = "addTaskToSlot") =>
        /\ currentSlot_' = currentSlot_
        /\ currentTimeMs_' = currentTimeMs_
        /\ lastSlotTimeMs_' = lastSlotTimeMs_
        /\ slotDurationMs_' = slotDurationMs_
        /\ IF lastRet'
           THEN \E s \in 0 .. SLOTS_PER_CYCLE - 1, task \in SlotTasks :
                   /\ slots_[s].taskCount < MAX_TASKS_PER_SLOT
                   /\ slots_'[s].taskCount = slots_[s].taskCount + 1
                   /\ slots_'[s].tasks = slots_[s].tasks \o <<task>>
                   /\ \A o \in 0 .. SLOTS_PER_CYCLE - 1 : o # s => slots_'[o] = slots_[o]
           ELSE slots_' = slots_
    ]_vars

\* task B has been appended behind task A in a slot; the other slots are empty
C13_Witness ==
    /\ IsTS /\ lastOp = "addTaskToSlot" /\ lastRet = TRUE
    /\ slots_[1].tasks = <<"A", "B">> /\ slots_[1].taskCount = 2
    /\ slots_[0].taskCount = 0 /\ slots_[2].taskCount = 0

(* C14: currentSlot starts at 0 and is always in [0, SLOTS_PER_CYCLE); a   *)
(* run() that sees elapsed >= slotDurationMs makes it (currentSlot + 1)    *)
(* mod SLOTS_PER_CYCLE and sets the last-transition time to the current    *)
(* time; a run() that sees elapsed < slotDurationMs executes nothing and   *)
(* leaves both unchanged; no other operation changes currentSlot.          *)
C14_CurrentSlotRotation ==
    /\ currentSlot_ = 0
    /\ [](getCurrentSlot \in 0 .. SLOTS_PER_CYCLE - 1)
    /\ [][IsTS =>
           IF lastOp' = "run"
           THEN IF Elapsed(currentTimeMs_, lastSlotTimeMs_) >= slotDurationMs_
                THEN /\ currentSlot_' = (currentSlot_ + 1) % SLOTS_PER_CYCLE
                     /\ lastSlotTimeMs_' = currentTimeMs_
                ELSE /\ calls' = <<>>
                     /\ currentSlot_' = currentSlot_
                     /\ lastSlotTimeMs_' = lastSlotTimeMs_
           ELSE currentSlot_' = currentSlot_
       ]_vars

\* the transition from the last slot back to slot 0
C14_Witness ==
    /\ IsTS /\ lastOp = "run" /\ slotDurationMs_ >= 1
    /\ currentSlot_ = 0 /\ lastSlotTimeMs_ = currentTimeMs_
    /\ slots_[SLOTS_PER_CYCLE - 1].taskCount >= 1
    /\ TasksCalled(calls) = TasksOfSlot(SLOTS_PER_CYCLE - 1)

(* C15: one run() call makes at most one slot transition and dispatches at *)
(* most one slot, also when two or more slot durations have elapsed:       *)
(* currentSlot advances by 1, only the tasks of the slot that was current  *)
(* are called, and the last-transition time becomes the current time, so   *)
(* no elapsed time is left over.                                           *)
C15_OneTransitionPerRun ==
    [][TSRunStep =>
        /\ currentSlot_' \in {currentSlot_, (currentSlot_ + 1) % SLOTS_PER_CYCLE}
        /\ Len(calls') <= slots_[currentSlot_].taskCount
        /\ \A k \in 1 .. Len(calls') : calls'[k].task = slots_[currentSlot_].tasks[k]
        /\ (slotDurationMs_ >= 1 /\ ElapsedSince(lastSlotTimeMs_) >= 2 * slotDurationMs_) =>
              /\ currentSlot_' = (currentSlot_ + 1) % SLOTS_PER_CYCLE
              /\ lastSlotTimeMs_' = currentTimeMs_
              /\ Elapsed(currentTimeMs_', lastSlotTimeMs_') = 0
    ]_vars

\* the first dispatch, made when four slot durations had elapsed: slot 0 was
\* dispatched and the index is 1
C15_Witness ==
    /\ IsTS /\ lastOp = "run" /\ slotDurationMs_ = 1
    /\ currentTimeMs_ = 4 /\ lastSlotTimeMs_ = 4
    /\ currentSlot_ = 1
    /\ slots_[0].taskCount >= 1 /\ slots_[1].taskCount >= 1
    /\ Len(calls) = slots_[0].taskCount

(* C17: a task registered only in slot K is executed only by a run() call  *)
(* that begins with currentSlot = K.                                       *)
C17_SlotIsolation ==
    [][TSRunStep =>
        \A K \in 0 .. SLOTS_PER_CYCLE - 1, task \in SlotTasks :
           ( /\ task \in TasksOfSlot(K)
             /\ \A o \in 0 .. SLOTS_PER_CYCLE - 1 : o # K => task \notin TasksOfSlot(o)
             /\ task \in TasksCalled(calls') )
           => currentSlot_ = K
    ]_vars

\* the slot of task B has been dispatched while the slot of task A was not
C17_Witness ==
    /\ IsTS /\ lastOp = "run"
    /\ TasksOfSlot(0) = {"A"} /\ TasksOfSlot(1) = {"B"} /\ TasksOfSlot(2) = {}
    /\ currentSlot_ = 2
    /\ TasksCalled(calls) = {"B"}

(* C12 as stated: after any number of ticks, wraparound included, run()    *)
(* dispatches an entry (a slot) exactly when at least period (slot         *)
(* duration) ticks have occurred since it last ran (since the last slot    *)
(* transition).                                                            *)
C12_DispatchedIffTicksElapsed ==
    [][lastOp' = "run" =>
        IF IsCE
        THEN \A i \in 1 .. numTasks_ :
                (TimesCalled(calls', i - 1) >= 1) <=> (sinceRun[i] >= tasks_[i].periodMs)
        ELSE (currentSlot_' # currentSlot_) <=> (sinceSlot >= slotDurationMs_)
    ]_vars

(* C12, amended: when fewer ticks than the counter's modulus have occurred *)
(* since an entry last ran (since the last slot transition), run()         *)
(* dispatches it exactly when at least period (slot duration) ticks have   *)
(* occurred since then, whether or not the counter wrapped in between.     *)
C12_DispatchedIffTicksElapsedWithinOneRound ==
    [][lastOp' = "run" =>
        IF IsCE
        THEN \A i \in 1 .. numTasks_ :
                sinceRun[i] < UINT_MOD =>
                   ( (TimesCalled(calls', i - 1) >= 1) <=> (sinceRun[i] >= tasks_[i].periodMs) )
        ELSE sinceSlot < UINT_MOD =>
                ( (currentSlot_' # currentSlot_) <=> (sinceSlot >= slotDurationMs_) )
    ]_vars

\* the counter has wrapped to 0: the entry that ran two ticks ago, at
\* UINT_MOD - 2, has been run again; the entry that ran one tick ago, at
\* UINT_MOD - 1, has not
C12_Witness ==
    /\ IsCE /\ lastOp = "run" /\ currentTimeMs_ = 0 /\ ticks = UINT_MOD
    /\ numTasks_ = 2
    /\ tasks_[1].periodMs = 2 /\ tasks_[2].periodMs = 2
    /\ tasks_[1].runCount >= 2 /\ TimesCalled(calls, 0) = 1
    /\ tasks_[2].runCount >= 1 /\ TimesCalled(calls, 1) = 0
    /\ tasks_[2].lastRunMs = UINT_MOD - 1 /\ sinceRun[2] = 1

\* slots 0 .. SLOTS_PER_CYCLE - 1
SlotIndexes == 0 .. SLOTS_PER_CYCLE - 1

C19_SomeSlotNeverDispatched ==
    IsTS => \E s \in SlotIndexes : dispatched[s] = 0

(* C19, amended: when two or more slot durations elapse between            *)
(* consecutive run() calls, fewer than SLOTS_PER_CYCLE slots are           *)
(* dispatched within a major cycle, so some slot's tasks are not executed  *)
(* in that cycle; the slots are still dispatched in rotation, none is      *)
(* skipped: the slots before currentSlot have been dispatched once more    *)
(* than the others.                                                        *)
C19_InfrequentRunDelaysTheRotation ==
    IsTS =>
        /\ ticks <= MajorCycle => \E s \in SlotIndexes : dispatched[s] = 0
        /\ \A s \in SlotIndexes :
              dispatched[s] = dispatched[getCurrentSlot] + (IF s < getCurrentSlot THEN 1 ELSE 0)

\* the end of the first major cycle of slots of 2 ticks, with one run() call
\* after 4 ticks: slot 0 has been dispatched, slots 1 and 2, which hold
\* tasks, have not
C19_Witness ==
    /\ IsTS /\ slotDurationMs_ = 2 /\ ticks = MajorCycle /\ sinceCall = 2
    /\ dispatched[0] = 1 /\ dispatched[1] = 0 /\ dispatched[2] = 0
    /\ slots_[1].taskCount >= 1 /\ slots_[2].taskCount >= 1
    /\ getCurrentSlot = 1

\* the task calls that dispatch slot s: every task once, in insertion order
CallsOfSlot(s) ==
    [i \in 1 .. slots_[s].taskCount |-> [index |-> i - 1, task |-> slots_[s].tasks[i]]]

(* C18: when run() performs a slot transition, at the moment it advances   *)
(* currentSlot it has executed every task of the current slot exactly      *)
(* once, in the order the tasks were added; no task is executed in a step  *)
(* that changes currentSlot, and none after the advance.                   *)
C18_SlotTasksInOrderBeforeAdvance ==
    [][IsTS =>
        /\ currentSlot_' # currentSlot_ =>
              /\ calls = CallsOfSlot(currentSlot_)
              /\ calls' = calls
        /\ calls' # calls /\ calls' # <<>> =>
              /\ currentSlot_' = currentSlot_
              /\ pc' = "tasks"
    ]_vars

\* run() has dispatched slot 0 holding A then B, a tick came while they
\* executed, and currentSlot has been advanced
C18_Witness ==
    /\ IsTS /\ pc = "idle" /\ lastOp = "run"
    /\ slots_[0].tasks = <<"A", "B">>
    /\ calls = <<[index |-> 0, task |-> "A"], [index |-> 1, task |-> "B"]>>
    /\ getCurrentSlot = 1
    /\ lastSlotTimeMs_ = currentTimeMs_ /\ sinceBegin = 1

(* C20: with run() polled at least once per tick and the tasks of a slot   *)
(* taking fewer ticks than a slot duration, successive slot dispatches     *)
(* begin exactly slotDurationMs ticks apart (the first one slotDurationMs  *)
(* ticks after construction), also when tick() fires while the tasks of    *)
(* the current slot execute.                                               *)
C20_DispatchesBeginOneSlotDurationApart ==
    (IsTS /\ slotDurationMs_ >= 1) => interval \in {-1, slotDurationMs_}

(* C21: the time counter is 0 at construction and is written only by       *)
(* tick(): it equals the number of tick() calls modulo the counter's       *)
(* width; every tick() adds one modulo the width, and run(), addTask and   *)
(* addTaskToSlot leave it unchanged.                                       *)
C21_TimeCounterCountsTicks ==
    /\ currentTimeMs_ = 0
    /\ [](ticks < UINT_MOD => getCurrentTimeMs = ticks)
    /\ [][IF lastOp' = "tick"
          THEN currentTimeMs_' = (currentTimeMs_ + 1) % UINT_MOD
          ELSE currentTimeMs_' = currentTimeMs_
       ]_vars

\* three ticks, registrations and a run() that executed a task: the counter
\* is 3
C21_Witness ==
    /\ IsCE /\ lastOp = "run" /\ ticks = 3 /\ getCurrentTimeMs = 3
    /\ numTasks_ = 2 /\ Len(calls) >= 1

(* C22: registration in CyclicExecutive is append-only and an entry's      *)
(* configuration is immutable: no operation decreases the task count, and  *)
(* an entry that exists at index i keeps its task and its period at index  *)
(* i in every later state.                                                 *)
C22_RegistrationIsAppendOnly ==
    [][IsCE =>
        /\ getTaskCount' >= getTaskCount
        /\ Len(tasks_') = getTaskCount'
        /\ \A i \in 1 .. numTasks_ :
              /\ tasks_'[i].task = tasks_[i].task
              /\ tasks_'[i].periodMs = tasks_[i].periodMs
    ]_vars

\* two entries, both executed by the last run(), still as registered
C22_Witness ==
    /\ IsCE /\ lastOp = "run" /\ numTasks_ = 2
    /\ tasks_[1].task = "slow" /\ tasks_[1].periodMs = 2
    /\ tasks_[2].task = "fast" /\ tasks_[2].periodMs = 1
    /\ Len(calls) = 2
    /\ tasks_[1].runCount >= 2 /\ tasks_[2].runCount >= 2

(* C27: addTask creates the entry with run count 0 and last-run time 0     *)
(* whatever the time counter is; so an entry of period P registered when   *)
(* the counter is T >= P is executed by a run() call that directly follows *)
(* the registration, with no tick() in between.                            *)
C27_NewEntryStartsAtZeroAndRunsAtOnce ==
    [][IsCE =>
        /\ (lastOp' = "addTask" /\ lastRet') =>
              /\ numTasks_' = numTasks_ + 1
              /\ tasks_'[numTasks_'].lastRunMs = 0
              /\ tasks_'[numTasks_'].runCount = 0
        /\ (lastOp = "addTask" /\ lastRet /\ lastOp' = "run"
               /\ currentTimeMs_ >= tasks_[numTasks_].periodMs) =>
              /\ TimesCalled(calls', numTasks_ - 1) = 1
              /\ tasks_'[numTasks_].runCount = 1
    ]_vars

\* an entry of period 2 was registered at time 3 and run at once; the entry
\* registered before it ran at time 3 already and was not due
C27_Witness ==
    /\ IsCE /\ lastOp = "run" /\ runsInRow = 1 /\ currentTimeMs_ = 3
    /\ numTasks_ = 2
    /\ tasks_[2].periodMs = 2 /\ tasks_[2].runCount = 1 /\ tasks_[2].lastRunMs = 3
    /\ tasks_[1].periodMs = 2 /\ tasks_[1].lastRunMs = 3
    /\ calls = <<[index |-> 1, task |-> tasks_[2].task]>>

(* C28: an entry's run count goes up by one exactly when run() invokes its *)
(* task and its lastRunMs then becomes the time counter; no other          *)
(* operation changes either; a never-executed entry has run count 0 and    *)
(* lastRunMs 0; getTaskRunCount(i) is the entry's run count, and 0 for     *)
(* i >= task count.                                                        *)
C28_RunCountAndLastRunFollowExecutions ==
    /\ [](IsCE =>
            /\ \A i \in 0 .. MAX_TASKS + 1 :
                  getTaskRunCount(i) = IF i < numTasks_ THEN tasks_[i + 1].runCount ELSE 0
            /\ \A i \in 1 .. numTasks_ :
                  tasks_[i].runCount = 0 => tasks_[i].lastRunMs = 0)
    /\ [][IsCE =>
            \A i \in 1 .. numTasks_ :
               LET n == IF lastOp' = "run" THEN TimesCalled(calls', i - 1) ELSE 0 IN
               /\ tasks_'[i].runCount = tasks_[i].runCount + n
               /\ tasks_'[i].lastRunMs = IF n >= 1 THEN currentTimeMs_ ELSE tasks_[i].lastRunMs
               /\ n >= 1 => calls'[CHOOSE k \in 1 .. Len(calls') : calls'[k].index = i - 1].task
                               = tasks_[i].task
       ]_vars

\* entry 0 has been executed twice, last at time 1; entry 1, of period 2,
\* never
C28_Witness ==
    /\ IsCE /\ lastOp = "run" /\ numTasks_ = 2
    /\ getTaskRunCount(0) = 2 /\ tasks_[1].lastRunMs = 1 /\ currentTimeMs_ = 1
    /\ tasks_[2].periodMs = 2
    /\ getTaskRunCount(1) = 0 /\ tasks_[2].lastRunMs = 0
    /\ getTaskRunCount(2) = 0
    /\ TimesCalled(calls, 0) = 1

IsHeaters == sched = "Heaters"

(* C23: fed the same events from construction, the three heater state      *)
(* machines report the same getState() and the same isHeaterOn() after     *)
(* every event.                                                            *)
C23_HeatersAgree ==
    IsHeaters =>
        /\ getState.switchCase = getState.stateTable
        /\ getState.stateTable = getState.statePattern
        /\ isHeaterOn.switchCase = isHeaterOn.stateTable
        /\ isHeaterOn.stateTable = isHeaterOn.statePattern

\* heating, target reached, heating again, switched off from heating
C23_Witness ==
    /\ IsHeaters
    /\ events = <<"TURN_ON", "TEMP_OK", "TEMP_LOW", "TURN_OFF">>
    /\ getState.switchCase = "OFF" /\ getState.statePattern = "OFF"

(* C30: in each of the three heaters, after any events, isHeaterOn() is    *)
(* true if and only if getState() is HEATING.                              *)
C30_HeaterOnIffHeating ==
    IsHeaters =>
        /\ isHeaterOn.switchCase <=> getState.switchCase = "HEATING"
        /\ isHeaterOn.stateTable <=> getState.stateTable = "HEATING"
        /\ isHeaterOn.statePattern <=> getState.statePattern = "HEATING"

\* the heaters left HEATING for TARGET_REACHED and are off
C30_Witness ==
    /\ IsHeaters
    /\ events = <<"TURN_ON", "TEMP_LOW", "TEMP_OK">>
    /\ getState.stateTable = "TARGET_REACHED"
    /\ ~isHeaterOn.switchCase /\ ~isHeaterOn.stateTable /\ ~isHeaterOn.statePattern

\* the debouncer and its button exist
IsDebouncer == sched = "DelayDebouncer"

(* C24: after the raw input changed, once debounceMs update() calls in a   *)
(* row, counted from and including the first one that saw the new value,   *)
(* have read it, isPressed() equals the raw input; and stateChanged() is   *)
(* not reported before the debounceMs-th of them.                          *)
C24_DebouncedAfterNUpdates ==
    (IsDebouncer /\ lastOp = "update" /\ seen.changed) =>
        /\ seen.count >= debouncer.debounceMs_ => isPressed = seen.raw
        /\ seen.count < debouncer.debounceMs_ => ~stateChanged

\* the subject and its observers exist
IsSubject == sched = "ButtonSubject"

(* C25: an observer for which detach() has returned true, and which has    *)
(* not been attached again since, is not called by notifyPressed() or      *)
(* notifyReleased(), whatever attach and detach calls came before.         *)
C25_DetachedObserverNotNotified ==
    (IsSubject /\ lastOp \in {"notifyPressed", "notifyReleased"}) =>
        \A observer \in detached :
            \A i \in 1 .. Len(received) : received[i] # observer

\* the controller and its mocks exist
IsController == sched = "TemperatureController"

(* C26: an update() called while the sensor reports unhealthy ends with    *)
(* isInFault() true, the heater off by a turnOff() call, and no read() of  *)
(* the sensor, whatever the heater state and the setpoint were; an         *)
(* update() called while the sensor reports healthy ends with the fault    *)
(* cleared.                                                                *)
C26_FaultOnUnhealthySensor ==
    [][ (IsController /\ lastOp' = "update") =>
           IF ~sensor.m_healthy
           THEN /\ isInFault'
                /\ ~isOn'
                /\ heaterCalls' = <<"turnOff">>
                /\ sensorReads' = 0
                /\ controller'.m_lastReading = controller.m_lastReading
           ELSE ~isInFault' ]_vars

\* the controller had switched the heater on for a reading below a
\* non-default setpoint, then the sensor failed: in fault, heater off
C26_Witness ==
    /\ IsController
    /\ lastOp = "update"
    /\ ~sensor.m_healthy
    /\ isInFault /\ ~isOn
    /\ heaterCalls = <<"turnOff">> /\ sensorReads = 0
    /\ controller.m_config.setpoint = DefaultSetpoint + TempSpan
    /\ controller.m_lastReading = DefaultSetpoint - TempSpan

====
